---- MODULE Spec2Model ----
(***************************************************************************)
(* Model of the wasm-resize kernel (src/src/wasm-resize/src/lib.rs):       *)
(* validate_params, should_use_nearest_neighbor, resize_rgba_nearest and   *)
(* resize_rgba, with the thread-local LAST_ERROR_CODE cell and the LUT     *)
(* scratch vectors.                                                        *)
(*                                                                         *)
(* TLC integers are 32-bit signed, the kernel computes with u32, usize     *)
(* (32 bits on wasm32), u64 and f32.  Unsigned values are therefore kept   *)
(* as little-endian sequences of limbs (exact naturals, narrowed where the *)
(* code narrows), and f32 values as sign/mantissa/exponent triples with    *)
(* IEEE-754 round-to-nearest-even after every operation.                   *)
(***************************************************************************)
EXTENDS Integers, Sequences, FiniteSets, TLC

(***************************************************************************)
(* Exact naturals: little-endian limb sequences, no high zero limb.        *)
(***************************************************************************)
Base == 16 * 16

RECURSIVE Big(_)
Big(n) == IF n = 0 THEN <<>> ELSE <<n % Base>> \o Big(n \div Base)

RECURSIVE ToInt(_)
ToInt(b) == IF b = <<>> THEN 0 ELSE Head(b) + Base * ToInt(Tail(b))

RECURSIVE Trim(_)
Trim(b) ==
    IF b = <<>> THEN <<>>
    ELSE IF b[Len(b)] = 0 THEN Trim(SubSeq(b, 1, Len(b) - 1))
    ELSE b

Limb(b, i) == IF i <= Len(b) THEN b[i] ELSE 0

RECURSIVE AddFrom(_, _, _, _)
AddFrom(a, b, i, carry) ==
    IF i > Len(a) /\ i > Len(b)
    THEN (IF carry = 0 THEN <<>> ELSE <<carry>>)
    ELSE LET s == Limb(a, i) + Limb(b, i) + carry
         IN  <<s % Base>> \o AddFrom(a, b, i + 1, s \div Base)

BigAdd(a, b) == AddFrom(a, b, 1, 0)

RECURSIVE MulLimb(_, _, _, _)
MulLimb(a, d, i, carry) ==
    IF i > Len(a)
    THEN (IF carry = 0 THEN <<>> ELSE <<carry>>)
    ELSE LET p == a[i] * d + carry
         IN  <<p % Base>> \o MulLimb(a, d, i + 1, p \div Base)

RECURSIVE BigMul(_, _)
BigMul(a, b) ==
    IF b = <<>> \/ a = <<>> THEN <<>>
    ELSE Trim(BigAdd(MulLimb(a, Head(b), 1, 0), <<0>> \o BigMul(a, Tail(b))))

RECURSIVE LtFrom(_, _, _)
LtFrom(a, b, i) ==
    IF i = 0 THEN FALSE
    ELSE IF a[i] # b[i] THEN a[i] < b[i]
    ELSE LtFrom(a, b, i - 1)

BigLt(a, b) ==
    IF Len(a) # Len(b) THEN Len(a) < Len(b) ELSE LtFrom(a, b, Len(a))

BigLe(a, b) == ~BigLt(b, a)

BigMin(a, b) == IF BigLt(b, a) THEN b ELSE a

\* value mod 2^(8*k): what a narrowing cast to a k-byte unsigned keeps
Narrow(b, k) == Trim(SubSeq(b, 1, IF Len(b) < k THEN Len(b) ELSE k))

TwoTo16 == Big(65536)
TwoTo32 == BigMul(TwoTo16, TwoTo16)
TwoTo64 == BigMul(TwoTo32, TwoTo32)
U32_MAX == BigAdd(BigMul(Big(65535), TwoTo16), Big(65535))

(***************************************************************************)
(* f32: <<s, m, e>> stands for s * m * 2^e with s in {1, -1} and either    *)
(* m = 0 (zero) or 2^23 <= m < 2^24 (24-bit significand).  Every operation *)
(* computes the exact result and rounds it to nearest, ties to even, as    *)
(* wasm's f32 instructions do.  Exponents stay far from the subnormal and  *)
(* overflow ranges for dimensions up to 65535, so neither is modelled.     *)
(***************************************************************************)
F32Zero == <<1, 0, 0>>

RECURSIVE BitLen(_)
BitLen(n) == IF n = 0 THEN 0 ELSE 1 + BitLen(n \div 2)

\* s * (mx + f) * 2^e rounded, where 0 < f < 1 if sticky and f = 0 otherwise;
\* callers pass at least 25 bits in mx when sticky.
\* the quotient q rounded up or not: remainder r against half a unit, ties to even
RoundNearestEven(q, r, half, sticky) ==
    IF r > half \/ (r = half /\ (sticky \/ (q % 2) = 1)) THEN q + 1 ELSE q

\* a rounded significand that reached 2^24 moves up one binade
Renormalize(s, q2, e) == IF q2 = 2^24 THEN <<s, 2^23, e + 1>> ELSE <<s, q2, e>>

\* t = (number of bits of mx) - 24: the bits that do not fit the significand
RoundBits(s, mx, e, sticky, t) ==
    IF t <= 0 THEN <<s, mx * 2^(-t), e + t>>
    ELSE Renormalize(s, RoundNearestEven(mx \div 2^t, mx % 2^t, 2^(t - 1), sticky), e + t)

F32Round(s, mx, e, sticky) ==
    IF mx = 0 THEN F32Zero ELSE RoundBits(s, mx, e, sticky, BitLen(mx) - 24)

\* `n as f32` for an integer n
F32FromInt(n) == IF n < 0 THEN F32Round(-1, -n, 0, FALSE) ELSE F32Round(1, n, 0, FALSE)

F32Half == <<1, 2^23, -24>>
F32One == F32FromInt(1)

F32Neg(a) == IF a[2] = 0 THEN a ELSE <<-a[1], a[2], a[3]>>

\* the 48-bit product of two significands from 12-bit halves: hi * 2^24 + lopart
MulJoin(s, e, hi, lopart) ==
    F32Round(s, hi * 64 + (lopart \div 2^18), e + 18, (lopart % 2^18) # 0)

MulCarry(s, e, a1b1, mid, low) ==
    MulJoin(s, e, a1b1 + (mid \div 4096), (mid % 4096) * 4096 + (low % 4096))

MulParts(s, e, a1, a0, b1, b0) ==
    MulCarry(s, e, a1 * b1, a1 * b0 + a0 * b1 + ((a0 * b0) \div 4096), a0 * b0)

F32Mul(a, b) ==
    IF a[2] = 0 \/ b[2] = 0 THEN F32Zero
    ELSE MulParts(a[1] * b[1], a[3] + b[3],
                  a[2] \div 4096, a[2] % 4096, b[2] \div 4096, b[2] % 4096)

RECURSIVE DivBits(_, _, _, _)
DivBits(q, r, d, k) ==
    IF k = 0 THEN <<q, r>>
    ELSE DivBits(2 * q + ((2 * r) \div d), (2 * r) % d, d, k - 1)

\* a / b for b # 0
DivRound(s, e, qr) == F32Round(s, qr[1], e, qr[2] # 0)

F32Div(a, b) ==
    IF a[2] = 0 THEN F32Zero
    ELSE DivRound(a[1] * b[1], a[3] - b[3] - 26,
                  DivBits(a[2] \div b[2], a[2] % b[2], b[2], 26))

\* a signed integer v times 2^e
RoundSigned(v, e) == F32Round(IF v < 0 THEN -1 ELSE 1, IF v < 0 THEN -v ELSE v, e, FALSE)

\* exponents more than 5 apart: big is hi's significand with five guard bits, small
\* the part of lo's significand that reaches them, st whether lo has bits below
AddFar(hi, lo, big, small, st) ==
    F32Round(hi[1],
             IF hi[1] = lo[1] THEN big + small
             ELSE IF st THEN big - small - 1 ELSE big - small,
             hi[3] - 5, st)

\* hi has the larger exponent, d = hi[3] - lo[3]
AddOrdered(hi, lo, d) ==
    IF d <= 5 THEN RoundSigned(hi[1] * hi[2] * 2^d + lo[1] * lo[2], lo[3])
    ELSE AddFar(hi, lo, hi[2] * 32,
                IF d - 5 >= 24 THEN 0 ELSE lo[2] \div 2^(d - 5),
                IF d - 5 >= 24 THEN TRUE ELSE (lo[2] % 2^(d - 5)) # 0)

F32Add(a, b) ==
    IF a[2] = 0 THEN b
    ELSE IF b[2] = 0 THEN a
    ELSE IF a[3] >= b[3] THEN AddOrdered(a, b, a[3] - b[3])
    ELSE AddOrdered(b, a, b[3] - a[3])

F32Sub(a, b) == F32Add(a, F32Neg(b))

IsNegative(d) == d[2] # 0 /\ d[1] = -1

F32Lt(a, b) == IsNegative(F32Sub(a, b))

\* f32::max and f32::min
F32Max(a, b) == IF F32Lt(a, b) THEN b ELSE a
F32Min(a, b) == IF F32Lt(b, a) THEN b ELSE a

I32_MAX == 2147483647

Min(x, y) == IF x < y THEN x ELSE y

\* f32::floor followed by the saturating `as i32`
\* the integer part of m * 2^(-k), for k > 0
IntPart(m, k) == IF k >= 24 THEN 0 ELSE m \div 2^k

F32FloorI32(a) ==
    IF a[2] = 0 THEN 0
    ELSE IF a[3] >= 0
         THEN (IF a[3] > 7 THEN a[1] * I32_MAX ELSE a[1] * a[2] * 2^a[3])
    ELSE IF a[1] = 1 THEN IntPart(a[2], -a[3])
    ELSE IF -a[3] < 24 /\ (a[2] % 2^(-a[3])) = 0 THEN -IntPart(a[2], -a[3])
    ELSE -IntPart(a[2], -a[3]) - 1

\* the truncating `as u32` / `as u8` of a float, saturating at 0 and at hi
\* (hi = 255 for u8; for u32 the callers pass the bound of the `.min(..)` that
\* follows the cast, which is below u32::MAX)
F32ToUnsigned(a, hi) ==
    IF a[2] = 0 \/ a[1] = -1 THEN 0
    ELSE IF a[3] >= 0 THEN hi
    ELSE Min(IntPart(a[2], -a[3]), hi)

(***************************************************************************)
(* Status codes and limits                                                 *)
(***************************************************************************)
RESIZE_OK == 0
RESIZE_ERR_NULL_PTR == 1
RESIZE_ERR_INVALID_SIZE == 2
RESIZE_ERR_OVERFLOW == 3
RESIZE_ERR_MEMORY == 4
RESIZE_ERR_ALIGNMENT == 5
RESIZE_ERR_OVERLAP == 6

MAX_DIMENSION == 65535
MAX_PIXELS == 268435456

\* Option::None of the checked usize operations
None == -1

(***************************************************************************)
(* Integer helpers of the standard library, at the width the code uses     *)
(***************************************************************************)
\* mutant: the product is checked against the 32-bit range
\* Some(p) as <<TRUE, p>> if p is below the limit, None as <<FALSE, 0>>
SomeBelow(p, limit) == IF BigLt(p, limit) THEN <<TRUE, p>> ELSE <<FALSE, <<>>>>

\* mutant: the product is checked against the 32-bit range
checked_mul_u64_as_u32(x, y) == SomeBelow(BigMul(x, y), TwoTo32)

\* u64::checked_mul
checked_mul_u64(x, y) == SomeBelow(BigMul(x, y), TwoTo64)

\* Option::and_then(|x| x.checked_mul(4))
and_then_mul4(wh) == IF wh[1] THEN checked_mul_u64(wh[2], Big(4)) ELSE wh

\* (w as u64).checked_mul(h as u64).and_then(|x| x.checked_mul(4))
size_u64(w, h) == and_then_mul4(checked_mul_u64(w, h))

\* the plain u64 `*` (wraps in a release build)
wrapping_mul_u64(x, y) == Narrow(BigMul(x, y), 8)

\* usize::saturating_add and u32::saturating_mul on wasm32
saturating_add(x, y) == BigMin(BigAdd(x, y), U32_MAX)
saturating_mul(x, y) == BigMin(BigMul(x, y), U32_MAX)

\* usize::checked_mul and usize::checked_add on machine-word operands kept as Int
SomeUsize(x, p) == IF x = None \/ ~BigLt(p, TwoTo32) THEN None ELSE ToInt(p)

checked_mul(x, y) == SomeUsize(x, BigMul(Big(x), Big(y)))

checked_add(x, y) == SomeUsize(x, BigAdd(Big(x), Big(y)))

\* idx.saturating_add(3) < len
\* mutant: the last pixel of a slice is taken to lie outside it
fits4_short(idx, len) == BigLt(saturating_add(Big(idx), Big(4)), Big(len))

\* idx.saturating_add(3) < len
fits4(idx, len) == BigLt(saturating_add(Big(idx), Big(3)), Big(len))

(***************************************************************************)
(* validate_params: the status it latches and returns, and the two sizes   *)
(***************************************************************************)
\* mutant: closed ranges, adjacent buffers count as overlapping
Overlaps_closed(src_start, src_size, dst_start, dst_size) ==
    /\ BigLe(src_start, saturating_add(dst_start, dst_size))
    /\ BigLe(dst_start, saturating_add(src_start, src_size))

\* (src_start < dst_end) && (dst_start < src_end), the ends saturating
Overlaps(src_start, src_size, dst_start, dst_size) ==
    /\ BigLt(src_start, saturating_add(dst_start, dst_size))
    /\ BigLt(dst_start, saturating_add(src_start, src_size))

Failed(code) == [code |-> code, src_size |-> <<>>, dst_size |-> <<>>]

\* null check, then alignment of the source and of the destination pointer
check_pointers(a) ==
    IF a.src_ptr = <<>> \/ a.dst_ptr = <<>> THEN RESIZE_ERR_NULL_PTR
    ELSE IF (Limb(a.src_ptr, 1) % 4) # 0 THEN RESIZE_ERR_ALIGNMENT
    ELSE IF (Limb(a.dst_ptr, 1) % 4) # 0 THEN RESIZE_ERR_ALIGNMENT
    ELSE RESIZE_OK

check_dimensions(a) ==
    IF a.src_w = <<>> \/ a.src_h = <<>> \/ a.dst_w = <<>> \/ a.dst_h = <<>>
    THEN RESIZE_ERR_INVALID_SIZE
    ELSE RESIZE_OK

\* the two checked size computations
check_overflow(a) ==
    IF ~size_u64(a.src_w, a.src_h)[1] THEN RESIZE_ERR_OVERFLOW
    ELSE IF ~size_u64(a.dst_w, a.dst_h)[1] THEN RESIZE_ERR_OVERFLOW
    ELSE RESIZE_OK

\* mutant: too many pixels are reported as Overflow
\* any of the four dimensions above MAX_DIMENSION
over_dimension(a) ==
    \/ BigLt(Big(MAX_DIMENSION), a.src_w)
    \/ BigLt(Big(MAX_DIMENSION), a.src_h)
    \/ BigLt(Big(MAX_DIMENSION), a.dst_w)
    \/ BigLt(Big(MAX_DIMENSION), a.dst_h)

\* src_pixels > MAX_PIXELS || dst_pixels > MAX_PIXELS
over_pixels(a) ==
    \/ BigLt(Big(MAX_PIXELS), wrapping_mul_u64(a.src_w, a.src_h))
    \/ BigLt(Big(MAX_PIXELS), wrapping_mul_u64(a.dst_w, a.dst_h))

\* mutant: too many pixels are reported as Overflow
check_limits_pixels_as_overflow(a) ==
    IF over_dimension(a) THEN RESIZE_ERR_INVALID_SIZE
    ELSE IF over_pixels(a) THEN RESIZE_ERR_OVERFLOW
    ELSE RESIZE_OK

\* MAX_DIMENSION on the four dimensions, then MAX_PIXELS on the two pixel counts
check_limits(a) ==
    IF over_dimension(a) THEN RESIZE_ERR_INVALID_SIZE
    ELSE IF over_pixels(a) THEN RESIZE_ERR_INVALID_SIZE
    ELSE RESIZE_OK

\* src_size_u64 as usize, dst_size_u64 as usize
sizes(a) ==
    [src_size |-> Narrow(size_u64(a.src_w, a.src_h)[2], 4),
     dst_size |-> Narrow(size_u64(a.dst_w, a.dst_h)[2], 4)]

overlap_code(a, sz) ==
    IF Overlaps(a.src_ptr, sz.src_size, a.dst_ptr, sz.dst_size)
    THEN RESIZE_ERR_OVERLAP
    ELSE RESIZE_OK

check_overlap(a) == overlap_code(a, sizes(a))

\* an early return: the first code that is not Ok, else what follows
OrElse(code, rest) == IF code # RESIZE_OK THEN code ELSE rest

\* Err(code), or Ok((src_size, dst_size))
Verdict(code, sz) ==
    IF code # RESIZE_OK THEN Failed(code)
    ELSE [code |-> RESIZE_OK, src_size |-> sz.src_size, dst_size |-> sz.dst_size]

\* mutant: the dimensions are checked before the pointers
validate_params_dimensions_first(a) ==
    Verdict(OrElse(check_dimensions(a),
            OrElse(check_pointers(a),
            OrElse(check_overflow(a),
            OrElse(check_limits(a), check_overlap(a))))),
            sizes(a))

validate_params(a) ==
    Verdict(OrElse(check_pointers(a),
            OrElse(check_dimensions(a),
            OrElse(check_overflow(a),
            OrElse(check_limits(a), check_overlap(a))))),
            sizes(a))

(***************************************************************************)
(* should_use_nearest_neighbor                                             *)
(***************************************************************************)
SMALL_PIXELS == 1000000
MEDIUM_PIXELS == 10000000

\* mutant: the pixel-count boundaries are inclusive
threshold_inclusive(src_pixels) ==
    IF BigLe(src_pixels, Big(SMALL_PIXELS)) THEN 8
    ELSE IF BigLe(src_pixels, Big(MEDIUM_PIXELS)) THEN 4
    ELSE 2

\* mutant: small images get the medium threshold
threshold_small_as_medium(src_pixels) ==
    IF BigLt(src_pixels, Big(MEDIUM_PIXELS)) THEN 4 ELSE 2

threshold(src_pixels) ==
    IF BigLt(src_pixels, Big(SMALL_PIXELS)) THEN 8
    ELSE IF BigLt(src_pixels, Big(MEDIUM_PIXELS)) THEN 4
    ELSE 2

\* is_downscaling && src > dst.saturating_mul(t)
scale_exceeds(src, dst, t) == BigLt(dst, src) /\ BigLt(saturating_mul(dst, t), src)

exceeds_threshold(src_w, src_h, dst_w, dst_h, t) ==
    scale_exceeds(src_w, dst_w, t) \/ scale_exceeds(src_h, dst_h, t)

should_use_nearest_neighbor(src_w, src_h, dst_w, dst_h) ==
    IF ~BigLt(dst_w, src_w) /\ ~BigLt(dst_h, src_h) THEN FALSE
    ELSE IF exceeds_threshold(src_w, src_h, dst_w, dst_h, Big(8)) THEN TRUE
    ELSE exceeds_threshold(src_w, src_h, dst_w, dst_h,
                           Big(threshold(wrapping_mul_u64(src_w, src_h))))

(***************************************************************************)
(* State                                                                   *)
(***************************************************************************)
VARIABLES
    mem,                  \* linear memory, cell -> byte (two windows, see CellOf)
    LAST_ERROR_CODE,      \* the thread-local diagnostic cell
    X_INDICES_NEAREST,    \* the four thread-local LUT vectors
    X0_INDICES_BILINEAR,
    X1_INDICES_BILINEAR,
    FX_VALUES_BILINEAR,
    call,                 \* the last exported call: arguments, returned status, accesses
    ncalls,               \* calls made so far
    allocated,            \* the blocks alloc_memory has handed out and not taken back
    history               \* the exported calls made so far, in order: name and result

vars == <<mem, LAST_ERROR_CODE, X_INDICES_NEAREST, X0_INDICES_BILINEAR,
          X1_INDICES_BILINEAR, FX_VALUES_BILINEAR, call, ncalls, allocated,
          history>>

(***************************************************************************)
(* Bounds of the model                                                     *)
(***************************************************************************)
MaxDim == 4      \* largest width/height of the square-ish buffers that are resampled
RowSrcW == 26    \* a single-row source that wide ...
RowDstW == 11    \* ... resampled to a single row this wide
SeqDim == 2      \* largest width in call sequences
MaxCalls == 2    \* length of call sequences
GrayRowW == 3    \* widest single-row gray source that is upscaled ...
GrayDstW == 8    \* ... to a single row at most this wide

(***************************************************************************)
(* Linear memory.  Two windows of the 4 GiB wasm32 address space carry     *)
(* bytes: the low addresses 0 .. LowSize-1 and the top HighSize addresses. *)
(***************************************************************************)
BufBytes == IF MaxDim * MaxDim > RowSrcW THEN MaxDim * MaxDim * 4 ELSE RowSrcW * 4
SrcBase == 2 * 4
DstBase == SrcBase + BufBytes + 8
LowSize == DstBase + BufBytes + 4
HighSize == 2 * 4
HighBase == BigAdd(BigMul(Big(65535), TwoTo16), Big(65536 - HighSize))
Cells == 0 .. (LowSize + HighSize - 1)

CellOf(ptr) ==
    IF BigLt(ptr, Big(LowSize)) THEN ToInt(ptr)
    ELSE LowSize + CHOOSE j \in 0 .. (HighSize - 1) : BigAdd(HighBase, Big(j)) = ptr

\* [ptr, ptr + size) lies inside one window
InMem(ptr, size) ==
    \/ BigLe(BigAdd(ptr, size), Big(LowSize))
    \/ BigLe(HighBase, ptr) /\ BigLe(BigAdd(ptr, size), TwoTo32)

\* # Safety of resize_rgba: the pointers point to valid memory of w*h*4 bytes.
\* It binds the caller only where the kernel builds slices, after validation.
BuffersInMem(a, v) ==
    v.code = RESIZE_OK => InMem(a.src_ptr, v.src_size) /\ InMem(a.dst_ptr, v.dst_size)

CallerContract(a) == BuffersInMem(a, validate_params(a))

Clamp(x, lo, hi) == IF x < lo THEN lo ELSE IF x > hi THEN hi ELSE x

\* mutant: the source slice is built from the destination pointer
Ctx_source_at_dst(a, v) ==
    [src_w |-> ToInt(a.src_w), src_h |-> ToInt(a.src_h),
     dst_w |-> ToInt(a.dst_w), dst_h |-> ToInt(a.dst_h),
     sc |-> CellOf(a.dst_ptr), dc |-> CellOf(a.dst_ptr),
     src_len |-> ToInt(v.src_size), dst_len |-> ToInt(v.dst_size)]

\* the slices and dimensions a validated call works on
Ctx(a, v) ==
    [src_w |-> ToInt(a.src_w), src_h |-> ToInt(a.src_h),
     dst_w |-> ToInt(a.dst_w), dst_h |-> ToInt(a.dst_h),
     sc |-> CellOf(a.src_ptr), dc |-> CellOf(a.dst_ptr),
     src_len |-> ToInt(v.src_size), dst_len |-> ToInt(v.dst_size)]

\* src_w as f32 / dst_w as f32
scale(src_dim, dst_dim) == F32Div(F32FromInt(src_dim), F32FromInt(dst_dim))

\* dst[dst_idx .. dst_idx+3] = the four bytes px
Write4(m, dc, dst_idx, px) ==
    [c \in DOMAIN m |->
        IF c >= dc + dst_idx /\ c <= dc + dst_idx + 3 THEN px[c - dc - dst_idx + 1]
        ELSE m[c]]

Span4(base, idx) == {base + idx + k : k \in 0 .. 3}

(***************************************************************************)
(* resize_rgba_nearest                                                     *)
(***************************************************************************)
\* mutant: the sample is taken at the pixel's left edge, not its centre
nearest_coord_left_edge(i, sc, dim) == F32ToUnsigned(F32Mul(F32FromInt(i), sc), dim - 1)

\* ((i as f32 + 0.5) * scale) as u32, then .min(dim - 1)
nearest_coord(i, sc, dim) ==
    F32ToUnsigned(F32Mul(F32Add(F32FromInt(i), F32Half), sc), dim - 1)

\* mutant: clear() leaves the entries of the previous call in the vector
clear_keeps_entries(v) == v

\* Vec::clear
clear(v) == << >>

\* the vector after clear() and one push per entry
refill(v, entries) == clear(v) \o entries

nearest_lut(c) ==
    [x \in 1 .. c.dst_w |-> nearest_coord(x - 1, scale(c.src_w, c.dst_w), c.src_w) * 4]

\* mutant: the row check demands room for a second pixel
row_in_bounds_two_pixels(offset, len) == offset + 4 < len

\* `if src_y_offset >= src.len()` aborts the call
row_in_bounds(offset, len) == offset < len

\* (y as usize).checked_mul(dst_w as usize), then checked_add(x), then checked_mul(4)
dst_index(y, dst_w, x) == checked_mul(checked_add(checked_mul(y, dst_w), x), 4)

\* the bounds-checked copy of one pixel, its two indices computed
nearest_copy(c, src_idx, dst_idx, st) ==
    IF src_idx = None THEN [st EXCEPT !.status = RESIZE_ERR_OVERFLOW]
    ELSE IF dst_idx = None THEN [st EXCEPT !.status = RESIZE_ERR_OVERFLOW]
    ELSE IF /\ fits4(src_idx, c.src_len) /\ fits4(dst_idx, c.dst_len)
            /\ src_idx < c.src_len /\ dst_idx < c.dst_len
         THEN [st EXCEPT !.mem = Write4(st.mem, c.dc, dst_idx,
                                        [k \in 1 .. 4 |-> st.mem[c.sc + src_idx + k - 1]]),
                         !.reads = @ \cup Span4(c.sc, src_idx),
                         !.writes = @ \cup Span4(c.dc, dst_idx),
                         !.copied = @ + 1]
    ELSE [st EXCEPT !.fallbacks = @ + 1]

\* one iteration of the inner loop: st.status becomes a code when it aborts
nearest_pixel(c, lut, y, src_y_offset, x, st) ==
    IF x >= Len(lut) THEN [st EXCEPT !.status = RESIZE_ERR_INVALID_SIZE]
    ELSE nearest_copy(c, checked_add(src_y_offset, lut[x + 1]), dst_index(y, c.dst_w, x), st)

RECURSIVE nearest_pixels(_, _, _, _, _, _)
nearest_pixels(c, lut, y, src_y_offset, x, st) ==
    IF x = c.dst_w \/ st.status # None THEN st
    ELSE nearest_pixels(c, lut, y, src_y_offset, x + 1,
                        nearest_pixel(c, lut, y, src_y_offset, x, st))

\* (row as usize).checked_mul(src_w as usize).and_then(|x| x.checked_mul(4))
row_offset(row, src_w) == checked_mul(checked_mul(row, src_w), 4)

\* one iteration of the outer loop, the row offset computed
nearest_row(c, lut, y, src_y_offset, st) ==
    IF src_y_offset = None THEN [st EXCEPT !.status = RESIZE_ERR_OVERFLOW]
    ELSE IF ~row_in_bounds(src_y_offset, c.src_len)
         THEN [st EXCEPT !.status = RESIZE_ERR_INVALID_SIZE]
    ELSE nearest_pixels(c, lut, y, src_y_offset, 0, st)

RECURSIVE nearest_rows(_, _, _, _)
nearest_rows(c, lut, y, st) ==
    IF st.status # None THEN st
    ELSE IF y = c.dst_h THEN [st EXCEPT !.status = RESIZE_OK]
    ELSE nearest_rows(c, lut, y + 1,
             nearest_row(c, lut, y,
                 row_offset(nearest_coord(y, scale(c.src_h, c.dst_h), c.src_h), c.src_w),
                 st))

\* the state a loop starts from
Start(m) ==
    [status |-> None, mem |-> m, reads |-> {}, writes |-> {}, copied |-> 0, fallbacks |-> 0]

\* outcome of a call: returned status, diagnostic cell, memory, LUTs, accesses
Outcome(st, err, luts, nearest) ==
    [status |-> st.status, err |-> err, mem |-> st.mem, luts |-> luts,
     reads |-> st.reads, writes |-> st.writes, copied |-> st.copied,
     fallbacks |-> st.fallbacks, use_nearest |-> nearest]

\* mutant: the error is returned but not latched
Rejected_unlatched(code, m, luts) ==
    Outcome([Start(m) EXCEPT !.status = code], RESIZE_OK, luts, FALSE)

\* `Err(code) => return code`: nothing but the diagnostic cell has changed
Rejected(code, m, luts) == Outcome([Start(m) EXCEPT !.status = code], code, luts, FALSE)

\* the return of the nearest kernel: st.status was latched where it was set
nearest_done(st, lut, luts) == Outcome(st, st.status, [luts EXCEPT !.x = lut], TRUE)

\* the X_INDICES_NEAREST.with(..) block: the LUT is rebuilt, then the loops run
nearest_kernel(c, lut, m, luts) == nearest_done(nearest_rows(c, lut, 0, Start(m)), lut, luts)

nearest_validated(c, v, m, luts) ==
    IF v.code # RESIZE_OK THEN Rejected(v.code, m, luts)
    ELSE nearest_kernel(c, refill(luts.x, nearest_lut(c)), m, luts)

nearest_with(a, v, m, luts) == nearest_validated(Ctx(a, v), v, m, luts)

resize_rgba_nearest(a, m, luts) == nearest_with(a, validate_params(a), m, luts)

(***************************************************************************)
(* resize_rgba                                                             *)
(***************************************************************************)
\* x0, x1 and fx from the floor c0 of the source coordinate src
coord_from(src, c0, dim) ==
    [c0 |-> Clamp(c0, 0, dim - 1),
     c1 |-> Clamp(Min(c0 + 1, dim - 1), 0, dim - 1),
     f |-> F32Min(F32Max(F32Sub(src, F32FromInt(c0)), F32Zero), F32One)]

coord_at(src, dim) == coord_from(src, F32FloorI32(src), dim)

\* mutant: the half-pixel shift back is missing
bilinear_coord_unshifted(i, sc, dim) ==
    coord_at(F32Mul(F32Add(F32FromInt(i), F32Half), sc), dim)

\* per destination coordinate i: the two clamped source coordinates and the weight
bilinear_coord(i, sc, dim) ==
    coord_at(F32Sub(F32Mul(F32Add(F32FromInt(i), F32Half), sc), F32Half), dim)

\* the three vectors pushed in the LUT loop
luts_from(co) ==
    [x0 |-> [x \in DOMAIN co |-> co[x].c0 * 4],
     x1 |-> [x \in DOMAIN co |-> co[x].c1 * 4],
     fx |-> [x \in DOMAIN co |-> co[x].f]]

bilinear_luts(c) ==
    luts_from([x \in 1 .. c.dst_w |-> bilinear_coord(x - 1, scale(c.src_w, c.dst_w), c.src_w)])

\* `return [0, 0, 0, 0]`: no byte is read
Transparent == [pos |-> None, px |-> <<0, 0, 0, 0>>, fallback |-> TRUE]

\* the final check of the closure and its four loads
pixel_at(c, m, pos) ==
    IF pos >= c.src_len THEN Transparent
    ELSE [pos |-> pos, px |-> [k \in 1 .. 4 |-> m[c.sc + pos + k - 1]], fallback |-> FALSE]

\* the closure after offset.checked_add(idx)
pixel_clamped(c, m, sum) ==
    IF sum = None THEN Transparent
    ELSE IF fits4(sum, c.src_len) THEN pixel_at(c, m, sum)
    ELSE IF c.src_len >= 4 THEN [pixel_at(c, m, c.src_len - 4) EXCEPT !.fallback = TRUE]
    ELSE Transparent

\* the closure get_pixel_safe: the position it reads (None: no read) and the pixel
get_pixel_safe(c, m, offset, idx) == pixel_clamped(c, m, checked_add(offset, idx))

\* mutant: the weights of the two samples are exchanged
lerp_weights_exchanged(a, b, t) ==
    F32ToUnsigned(
        F32Min(F32Max(F32Add(F32Mul(F32FromInt(a), t),
                             F32Mul(F32FromInt(b), F32Sub(F32One, t))),
                      F32Zero),
               F32FromInt(255)),
        255)

\* the closure lerp
lerp(a, b, t) ==
    F32ToUnsigned(
        F32Min(F32Max(F32Add(F32Mul(F32FromInt(a), F32Sub(F32One, t)),
                             F32Mul(F32FromInt(b), t)),
                      F32Zero),
               F32FromInt(255)),
        255)

ReadSpan(c, p) == IF p.pos = None THEN {} ELSE Span4(c.sc, p.pos)

\* 1 when the pixel is a transparent or clamped stand-in
Fallback(p) == IF p.fallback THEN 1 ELSE 0

\* the bounds-checked store of the blended pixel
bilinear_write(c, st, result, dst_idx) ==
    IF dst_idx = None THEN [st EXCEPT !.status = RESIZE_ERR_OVERFLOW]
    ELSE IF fits4(dst_idx, c.dst_len) /\ dst_idx < c.dst_len
         THEN [st EXCEPT !.mem = Write4(st.mem, c.dc, dst_idx, result),
                         !.writes = @ \cup Span4(c.dc, dst_idx),
                         !.copied = @ + 1]
    ELSE [st EXCEPT !.fallbacks = @ + 1]

\* horizontal interpolation of the two rows, then vertical interpolation
bilinear_blend(c, st, p00, p10, p01, p11, fx, fy, dst_idx) ==
    bilinear_write(c,
        [st EXCEPT !.reads = @ \cup ReadSpan(c, p00) \cup ReadSpan(c, p10)
                               \cup ReadSpan(c, p01) \cup ReadSpan(c, p11),
                   !.fallbacks = @ + Fallback(p00) + Fallback(p10)
                                   + Fallback(p01) + Fallback(p11)],
        [k \in 1 .. 4 |-> lerp(lerp(p00.px[k], p10.px[k], fx),
                               lerp(p01.px[k], p11.px[k], fx), fy)],
        dst_idx)

\* one iteration of the inner loop
bilinear_pixel(c, luts, y, row, x, st) ==
    IF x >= Len(luts.x0) \/ x >= Len(luts.x1) \/ x >= Len(luts.fx)
    THEN [st EXCEPT !.status = RESIZE_ERR_INVALID_SIZE]
    ELSE bilinear_blend(c, st,
             get_pixel_safe(c, st.mem, row.y0_offset, luts.x0[x + 1]),
             get_pixel_safe(c, st.mem, row.y0_offset, luts.x1[x + 1]),
             get_pixel_safe(c, st.mem, row.y1_offset, luts.x0[x + 1]),
             get_pixel_safe(c, st.mem, row.y1_offset, luts.x1[x + 1]),
             luts.fx[x + 1], row.fy, dst_index(y, c.dst_w, x))

RECURSIVE bilinear_pixels(_, _, _, _, _, _)
bilinear_pixels(c, luts, y, row, x, st) ==
    IF x = c.dst_w \/ st.status # None THEN st
    ELSE bilinear_pixels(c, luts, y, row, x + 1, bilinear_pixel(c, luts, y, row, x, st))

\* y0_offset, y1_offset and fy of a destination row
row_of(co, src_w) ==
    [y0_offset |-> row_offset(co.c0, src_w), y1_offset |-> row_offset(co.c1, src_w),
     fy |-> co.f]

\* one iteration of the outer loop, the row's offsets and weight computed
bilinear_row(c, luts, y, row, st) ==
    IF row.y0_offset = None \/ row.y1_offset = None
    THEN [st EXCEPT !.status = RESIZE_ERR_OVERFLOW]
    ELSE IF ~row_in_bounds(row.y0_offset, c.src_len) \/ ~row_in_bounds(row.y1_offset, c.src_len)
         THEN [st EXCEPT !.status = RESIZE_ERR_INVALID_SIZE]
    ELSE bilinear_pixels(c, luts, y, row, 0, st)

RECURSIVE bilinear_rows(_, _, _, _)
bilinear_rows(c, luts, y, st) ==
    IF st.status # None THEN st
    ELSE IF y = c.dst_h THEN [st EXCEPT !.status = RESIZE_OK]
    ELSE bilinear_rows(c, luts, y + 1,
             bilinear_row(c, luts, y,
                 row_of(bilinear_coord(y, scale(c.src_h, c.dst_h), c.src_h), c.src_w),
                 st))

\* the return of the bilinear kernel
bilinear_done(st, bl, luts) ==
    Outcome(st, st.status, [luts EXCEPT !.x0 = bl.x0, !.x1 = bl.x1, !.fx = bl.fx], FALSE)

\* the X0/X1/FX .with(..) block: the LUTs are rebuilt, then the loops run
bilinear_kernel(c, bl, m, luts) == bilinear_done(bilinear_rows(c, bl, 0, Start(m)), bl, luts)

\* the three vectors after their clear() and the pushes of the LUT loop
refill_bilinear(luts, bl) ==
    [x0 |-> refill(luts.x0, bl.x0), x1 |-> refill(luts.x1, bl.x1), fx |-> refill(luts.fx, bl.fx)]

bilinear_with(c, m, luts) ==
    bilinear_kernel(c, refill_bilinear(luts, bilinear_luts(c)), m, luts)

\* mutant: the selector is not consulted
resize_validated_always_bilinear(a, v, m, luts) ==
    IF v.code # RESIZE_OK THEN Rejected(v.code, m, luts)
    ELSE bilinear_with(Ctx(a, v), m, luts)

resize_validated(a, v, m, luts) ==
    IF v.code # RESIZE_OK THEN Rejected(v.code, m, luts)
    ELSE IF should_use_nearest_neighbor(a.src_w, a.src_h, a.dst_w, a.dst_h)
         THEN resize_rgba_nearest(a, m, luts)
    ELSE bilinear_with(Ctx(a, v), m, luts)

resize_rgba(a, m, luts) == resize_validated(a, validate_params(a), m, luts)

(***************************************************************************)
(* The exported calls as actions                                           *)
(***************************************************************************)
Luts == [x |-> X_INDICES_NEAREST, x0 |-> X0_INDICES_BILINEAR,
         x1 |-> X1_INDICES_BILINEAR, fx |-> FX_VALUES_BILINEAR]

NoArgs == [src_ptr |-> <<>>, src_w |-> <<>>, src_h |-> <<>>,
           dst_ptr |-> <<>>, dst_w |-> <<>>, dst_h |-> <<>>]

NoCall == [op |-> "none", a |-> NoArgs, status |-> RESIZE_OK, use_nearest |-> FALSE,
           reads |-> {}, writes |-> {}, copied |-> 0, fallbacks |-> 0, before |-> << >>,
           ptr |-> << >>, size |-> << >>, ret |-> << >>, msg |-> "",
           luts |-> [x |-> << >>, x0 |-> << >>, x1 |-> << >>, fx |-> << >>]]

\* an entry of the history: the call's name and what the caller saw of it
Entry(op, result, size, ret) == [op |-> op, result |-> result, size |-> size, ret |-> ret]

Returns(op, a, r) ==
    /\ mem' = r.mem
    /\ LAST_ERROR_CODE' = r.err
    /\ X_INDICES_NEAREST' = r.luts.x
    /\ X0_INDICES_BILINEAR' = r.luts.x0
    /\ X1_INDICES_BILINEAR' = r.luts.x1
    /\ FX_VALUES_BILINEAR' = r.luts.fx
    /\ call' = [NoCall EXCEPT
                    !.op = op, !.a = a, !.status = r.status, !.use_nearest = r.use_nearest,
                    !.reads = r.reads, !.writes = r.writes, !.copied = r.copied,
                    !.fallbacks = r.fallbacks,
                    !.before = mem, !.luts = Luts]
    /\ ncalls' = ncalls + 1
    /\ allocated' = allocated
    /\ history' = Append(history, Entry(op, r.status, << >>, << >>))

\* the outcome is computed once, then returned
DoResize(a) ==
    /\ CallerContract(a)
    /\ \E r \in {resize_rgba(a, mem, Luts)} : Returns("resize", a, r)

DoResizeNearest(a) ==
    /\ CallerContract(a)
    /\ \E r \in {resize_rgba_nearest(a, mem, Luts)} : Returns("resize_nearest", a, r)

(***************************************************************************)
(* Inputs                                                                  *)
(***************************************************************************)
Args(sp, sw, sh, dp, dw, dh) ==
    [src_ptr |-> sp, src_w |-> sw, src_h |-> sh, dst_ptr |-> dp, dst_w |-> dw, dst_h |-> dh]

TwoTo31 == BigMul(TwoTo16, Big(32768))

\* dimension pairs that exercise the validator's size checks
WidePairs ==
    { <<Big(0), Big(1)>>, <<Big(1), Big(0)>>, <<Big(1), Big(1)>>,
      <<Big(100), Big(100)>>, <<Big(20000), Big(20000)>>,
      <<Big(16384), Big(16384)>>, <<Big(16385), Big(16384)>>,
      <<Big(65535), Big(4096)>>, <<Big(65535), Big(4097)>>,
      <<Big(65535), Big(65535)>>, <<Big(65536), Big(1)>>, <<Big(1), Big(65536)>>,
      <<TwoTo31, TwoTo31>>, <<U32_MAX, U32_MAX>>, <<U32_MAX, Big(0)>> }

SrcPtrs == { Big(0), Big(SrcBase), Big(SrcBase + 2), HighBase, BigAdd(HighBase, Big(4)) }
DstPtrs == { Big(0), Big(DstBase), Big(DstBase + 1), Big(SrcBase), Big(SrcBase + 4),
             TwoTo31, HighBase, BigAdd(HighBase, Big(4)) }

WideArgs ==
    { Args(sp, s[1], s[2], dp, d[1], d[2]) :
        sp \in SrcPtrs, dp \in DstPtrs, s \in WidePairs, d \in WidePairs }

SmallDims(n) == { Big(i) : i \in 1 .. n }

SmallArgs(n, dps) ==
    { Args(Big(SrcBase), sw, sh, dp, dw, dh) :
        dp \in dps, sw \in SmallDims(n), sh \in SmallDims(n),
        dw \in SmallDims(n), dh \in SmallDims(n) }

RowArgs ==
    { Args(Big(SrcBase), Big(RowSrcW), Big(1), Big(DstBase), Big(RowDstW), Big(1)),
      Args(Big(SrcBase), Big(RowDstW), Big(1), Big(DstBase), Big(RowSrcW), Big(1)) }

CallArgs == WideArgs \cup SmallArgs(MaxDim, { Big(DstBase), Big(SrcBase + 4) }) \cup RowArgs

\* arguments of the calls in a sequence: single rows of the two largest
\* widths, a two-row image, a row downscaled by more than 8x, and calls the
\* validator rejects
SeqValidArgs ==
    { Args(Big(SrcBase), Big(sw), Big(1), Big(DstBase), Big(dw), Big(1)) :
        sw \in (SeqDim - 1) .. SeqDim, dw \in (SeqDim - 1) .. SeqDim }
    \cup { Args(Big(SrcBase), Big(SeqDim), Big(2), Big(DstBase), Big(SeqDim - 1), Big(2)) }
SeqNearestArgs ==
    { Args(Big(SrcBase), Big(RowSrcW), Big(1), Big(DstBase), Big(dw), Big(1)) : dw \in 1 .. 2 }
SeqRejectedArgs ==
    { Args(Big(SrcBase), Big(1), Big(1), Big(0), Big(1), Big(1)),
      Args(Big(SrcBase), Big(2), Big(1), Big(SrcBase + 4), Big(2), Big(1)),
      Args(Big(SrcBase), Big(RowSrcW), Big(1), Big(0), Big(1), Big(1)) }
SeqArgs == SeqValidArgs \cup SeqNearestArgs \cup SeqRejectedArgs
\* the direct calls of resize_nearest in a sequence: the widest sources
SeqDirectArgs ==
    { a \in SeqValidArgs : a.src_w = Big(SeqDim) }
    \cup { Args(Big(SrcBase), Big(2), Big(1), Big(SrcBase + 4), Big(2), Big(1)) }

(***************************************************************************)
(* alloc_memory, dealloc_memory, get_last_error                            *)
(***************************************************************************)
\* the heap the allocator serves: the bytes between the two image buffers
HeapBase == SrcBase + BufBytes
HeapSize == DstBase - HeapBase

NullPtr == Big(0)

\* Layout::from_size_align(size, 1) is Ok: size does not exceed isize::MAX
layout_ok(size) == BigLt(size, TwoTo31)

\* std::ptr::write_bytes(ptr, 0, size)
write_bytes(m, ptr, size) ==
    [c \in DOMAIN m |->
        IF c >= ToInt(ptr) /\ c < ToInt(ptr) + ToInt(size) THEN 0 ELSE m[c]]

Allocation(ret, err, m) == [ret |-> ret, err |-> err, mem |-> m]

\* mutant: a failed allocation leaves the diagnostic cell alone
alloc_memory_unlatched(size, p, m, err) ==
    IF size = Big(0) \/ ~layout_ok(size) \/ p = NullPtr THEN Allocation(NullPtr, err, m)
    ELSE Allocation(p, err, write_bytes(m, p, size))

\* alloc_memory(size), p being what the global allocator returns (null: exhausted)
alloc_memory(size, p, m, err) ==
    IF size = Big(0) THEN Allocation(NullPtr, RESIZE_ERR_INVALID_SIZE, m)
    ELSE IF ~layout_ok(size) THEN Allocation(NullPtr, RESIZE_ERR_MEMORY, m)
    ELSE IF p = NullPtr THEN Allocation(NullPtr, RESIZE_ERR_MEMORY, m)
    ELSE Allocation(p, err, write_bytes(m, p, size))

\* dealloc_memory(ptr, size): the blocks that stay allocated
dealloc_memory(ptr, size, live) ==
    IF ptr = NullPtr \/ size = Big(0) THEN live
    ELSE IF ~layout_ok(size) THEN live
    ELSE live \ {<<ptr, size>>}

\* get_last_error(): the static message of the latched code
get_last_error(code) ==
    IF code = RESIZE_OK THEN "OK"
    ELSE IF code = RESIZE_ERR_NULL_PTR THEN "NULL pointer"
    ELSE IF code = RESIZE_ERR_INVALID_SIZE THEN "Invalid size or dimensions"
    ELSE IF code = RESIZE_ERR_OVERFLOW THEN "Overflow in size calculation"
    ELSE IF code = RESIZE_ERR_MEMORY THEN "Memory error"
    ELSE IF code = RESIZE_ERR_ALIGNMENT THEN "Pointer alignment error"
    ELSE IF code = RESIZE_ERR_OVERLAP THEN "Memory regions overlap"
    ELSE "Unknown error"

\* the return of a call that leaves the LUTs alone
ReturnsHelper(op, ptr, size, ret, msg, m, err, live) ==
    /\ mem' = m
    /\ LAST_ERROR_CODE' = err
    /\ UNCHANGED <<X_INDICES_NEAREST, X0_INDICES_BILINEAR, X1_INDICES_BILINEAR,
                   FX_VALUES_BILINEAR>>
    /\ call' = [NoCall EXCEPT !.op = op, !.ptr = ptr, !.size = size, !.ret = ret,
                              !.msg = msg, !.before = mem, !.luts = Luts]
    /\ ncalls' = ncalls + 1
    /\ allocated' = live
    /\ history' = Append(history, Entry(op, None, size, ret))

Allocated(size, r) ==
    ReturnsHelper("alloc", << >>, size, r.ret, "", r.mem, r.err,
                  IF r.ret = NullPtr THEN allocated ELSE allocated \cup {<<r.ret, size>>})

\* the block [p, p + size) lies in the heap and meets no allocated block
IsFree(p, size) ==
    /\ p >= HeapBase /\ p + size <= HeapBase + HeapSize
    /\ \A b \in allocated : p + size <= ToInt(b[1]) \/ ToInt(b[1]) + ToInt(b[2]) <= p

\* what the global allocator may return for a request the layout admits
MayReturn(size) ==
    {NullPtr} \cup
    (IF size = Big(0) \/ ~layout_ok(size) THEN {}
     ELSE { Big(p) : p \in { q \in HeapBase .. (HeapBase + HeapSize - 1) :
                                  q % 4 = 0 /\ IsFree(q, ToInt(size)) } })

AllocSizes == { Big(0), Big(4), TwoTo31 }

DoAlloc(size) == \E p \in MayReturn(size) : Allocated(size, alloc_memory(size, p, mem, LAST_ERROR_CODE))

\* dealloc_memory is unsafe: what reaches dealloc(ptr, layout) is a block that
\* alloc_memory returned, released with the size it was requested with
DeallocArgs ==
    allocated \cup { <<NullPtr, Big(4)>>, <<Big(HeapBase), Big(0)>>, <<Big(HeapBase), TwoTo31>> }

DoDealloc(ptr, size) ==
    ReturnsHelper("dealloc", ptr, size, << >>, "", mem, LAST_ERROR_CODE,
                  dealloc_memory(ptr, size, allocated))

DoLastError ==
    ReturnsHelper("last_error", << >>, << >>, << >>, get_last_error(LAST_ERROR_CODE),
                  mem, LAST_ERROR_CODE, allocated)

(***************************************************************************)
(* Initial states: the cell and the LUTs as constructed, memory as the     *)
(* caller filled it (a byte ramp, or a solid red image at SrcBase)         *)
(***************************************************************************)
Red == <<255, 0, 0, 255>>
RampMem == [c \in Cells |-> (c * 37 + 11) % 256]
RedMem ==
    [c \in Cells |->
        IF c >= SrcBase /\ c < SrcBase + BufBytes THEN Red[((c - SrcBase) % 4) + 1] ELSE 0]

Init ==
    /\ mem \in {RampMem, RedMem}
    /\ LAST_ERROR_CODE = RESIZE_OK
    /\ X_INDICES_NEAREST = <<>>
    /\ X0_INDICES_BILINEAR = <<>>
    /\ X1_INDICES_BILINEAR = <<>>
    /\ FX_VALUES_BILINEAR = <<>>
    /\ call = NoCall
    /\ ncalls = 0
    /\ allocated = {}
    /\ history = <<>>

\* call sequences over small buffers
Resize == ncalls < MaxCalls /\ \E a \in SeqArgs : DoResize(a)
ResizeNearest == ncalls < MaxCalls /\ \E a \in SeqDirectArgs : DoResizeNearest(a)
Alloc == ncalls < MaxCalls /\ \E size \in AllocSizes : DoAlloc(size)
Dealloc == ncalls < MaxCalls /\ \E b \in DeallocArgs : DoDealloc(b[1], b[2])
LastError == ncalls < MaxCalls /\ DoLastError
Next == Resize \/ ResizeNearest \/ Alloc \/ Dealloc \/ LastError
InitSeq == Init /\ mem = RampMem
Spec == InitSeq /\ [][Next]_vars

\* one call from the initial state, over the wide inputs
CallResize == ncalls = 0 /\ \E a \in CallArgs : DoResize(a)
CallResizeNearest == ncalls = 0 /\ \E a \in CallArgs : DoResizeNearest(a)
NextCall == CallResize \/ CallResizeNearest
SpecCall == Init /\ [][NextCall]_vars

\* the selector alone, over dimensions around its thresholds
SelDims ==
    { Big(n) : n \in {1, 8, 9, 124, 125, 249, 250, 999, 1000, 1999, 2000,
                      3162, 3163, 4000, 65535} }

Select ==
    /\ ncalls = 0
    /\ \E sw \in SelDims, sh \in SelDims, dw \in SelDims, dh \in SelDims :
        /\ call' = [NoCall EXCEPT
                        !.op = "select",
                        !.a = Args(<<>>, sw, sh, <<>>, dw, dh),
                        !.use_nearest = should_use_nearest_neighbor(sw, sh, dw, dh)]
        /\ ncalls' = ncalls + 1
        /\ UNCHANGED <<mem, LAST_ERROR_CODE, X_INDICES_NEAREST, X0_INDICES_BILINEAR,
                       X1_INDICES_BILINEAR, FX_VALUES_BILINEAR, allocated, history>>

SpecSelector == Init /\ [][Select]_vars

\* single-row gray sources, non-decreasing from left to right, upscaled by resize
GrayLevels == {0, 1, 100, 254, 255}
GrayRows ==
    { r \in [1 .. GrayRowW -> GrayLevels] : \A i \in 1 .. (GrayRowW - 1) : r[i] <= r[i + 1] }
Gray(g) == <<g, g, g, 255>>
GrayMem(r) ==
    [c \in Cells |->
        IF c >= SrcBase /\ c < SrcBase + GrayRowW * 4
        THEN Gray(r[((c - SrcBase) \div 4) + 1])[((c - SrcBase) % 4) + 1]
        ELSE 0]

InitRow ==
    /\ mem \in { GrayMem(r) : r \in GrayRows }
    /\ LAST_ERROR_CODE = RESIZE_OK
    /\ X_INDICES_NEAREST = <<>>
    /\ X0_INDICES_BILINEAR = <<>>
    /\ X1_INDICES_BILINEAR = <<>>
    /\ FX_VALUES_BILINEAR = <<>>
    /\ call = NoCall
    /\ ncalls = 0
    /\ allocated = {}
    /\ history = <<>>

UpscaleRow ==
    /\ ncalls = 0
    /\ \E sw \in 1 .. GrayRowW : \E dw \in sw .. GrayDstW :
           DoResize(Args(Big(SrcBase), Big(sw), Big(1), Big(DstBase), Big(dw), Big(1)))

SpecRow == InitRow /\ [][UpscaleRow]_vars

(***************************************************************************)
(* The contract in the claims' own terms: exact naturals, no machine width *)
(***************************************************************************)
IsCall == call.op \in {"resize", "resize_nearest"}

Bytes(w, h) == BigMul(BigMul(w, h), Big(4))
IsAligned(ptr) == (Limb(ptr, 1) % 4) = 0
PointersOk(a) ==
    a.src_ptr # Big(0) /\ a.dst_ptr # Big(0) /\ IsAligned(a.src_ptr) /\ IsAligned(a.dst_ptr)
HasZeroDim(a) == Big(0) \in {a.src_w, a.src_h, a.dst_w, a.dst_h}
SizeOverflows(a) ==
    ~BigLt(Bytes(a.src_w, a.src_h), TwoTo64) \/ ~BigLt(Bytes(a.dst_w, a.dst_h), TwoTo64)
OverLimits(a) ==
    \/ \E d \in {a.src_w, a.src_h, a.dst_w, a.dst_h} : BigLt(Big(65535), d)
    \/ BigLt(Big(268435456), BigMul(a.src_w, a.src_h))
    \/ BigLt(Big(268435456), BigMul(a.dst_w, a.dst_h))
\* the half-open byte ranges [ptr, ptr + w*h*4) intersect
RangesIntersect(a) ==
    /\ BigLt(a.src_ptr, BigAdd(a.dst_ptr, Bytes(a.dst_w, a.dst_h)))
    /\ BigLt(a.dst_ptr, BigAdd(a.src_ptr, Bytes(a.src_w, a.src_h)))
PassesChecks1To5(a) ==
    PointersOk(a) /\ ~HasZeroDim(a) /\ ~SizeOverflows(a) /\ ~OverLimits(a)
ValidInput(a) == PassesChecks1To5(a) /\ ~RangesIntersect(a)

SrcCell == CellOf(call.a.src_ptr)
DstCell == CellOf(call.a.dst_ptr)
SrcBytes == ToInt(Bytes(call.a.src_w, call.a.src_h))
DstBytes == ToInt(Bytes(call.a.dst_w, call.a.dst_h))

(***************************************************************************)
(* C1: in a call that passes validation every byte read is at an index in  *)
(* [0, src_w*src_h*4) of the source buffer and every byte written at an    *)
(* index in [0, dst_w*dst_h*4) of the destination buffer; the source is    *)
(* never written and the destination never read.                           *)
(***************************************************************************)
C1_AccessesInBounds ==
    (IsCall /\ ValidInput(call.a)) =>
        /\ \A c \in call.reads : c - SrcCell \in 0 .. (SrcBytes - 1)
        /\ \A c \in call.writes : c - DstCell \in 0 .. (DstBytes - 1)
        /\ \A c \in call.reads : c - DstCell \notin 0 .. (DstBytes - 1)
        /\ \A c \in call.writes : c - SrcCell \notin 0 .. (SrcBytes - 1)
        /\ \A i \in 0 .. (SrcBytes - 1) : mem[SrcCell + i] = call.before[SrcCell + i]

C1_Witness ==
    /\ call.op = "resize" /\ ValidInput(call.a) /\ ~call.use_nearest
    /\ call.a.dst_w = Big(3) /\ call.a.src_h = Big(2)
    /\ Cardinality(call.writes) = DstBytes /\ Cardinality(call.reads) = SrcBytes

(***************************************************************************)
(* C2: the returned status is that of the first failing check in the order *)
(* null, alignment, zero dimension, overflow, limits, overlap; a null      *)
(* pointer gives NullPointer whatever the dimensions, and with non-null    *)
(* aligned pointers a zero dimension gives InvalidSize.                    *)
(***************************************************************************)
FirstFailingCheck(a) ==
    IF a.src_ptr = Big(0) \/ a.dst_ptr = Big(0) THEN RESIZE_ERR_NULL_PTR
    ELSE IF ~IsAligned(a.src_ptr) \/ ~IsAligned(a.dst_ptr) THEN RESIZE_ERR_ALIGNMENT
    ELSE IF HasZeroDim(a) THEN RESIZE_ERR_INVALID_SIZE
    ELSE IF SizeOverflows(a) THEN RESIZE_ERR_OVERFLOW
    ELSE IF OverLimits(a) THEN RESIZE_ERR_INVALID_SIZE
    ELSE IF RangesIntersect(a) THEN RESIZE_ERR_OVERLAP
    ELSE RESIZE_OK

C2_FirstFailureWins ==
    IsCall =>
        /\ FirstFailingCheck(call.a) # RESIZE_OK => call.status = FirstFailingCheck(call.a)
        /\ (call.a.src_ptr = Big(0) \/ call.a.dst_ptr = Big(0))
               => call.status = RESIZE_ERR_NULL_PTR
        /\ (PointersOk(call.a) /\ HasZeroDim(call.a)) => call.status = RESIZE_ERR_INVALID_SIZE

C2_Witness ==
    /\ call.op = "resize" /\ call.status = RESIZE_ERR_NULL_PTR
    /\ call.a.dst_ptr = Big(0) /\ call.a.src_ptr = Big(SrcBase + 2)
    /\ call.a.src_w = Big(0) /\ call.a.dst_w = U32_MAX

(***************************************************************************)
(* C3: a call that returns a status other than Ok has written no byte:     *)
(* memory after the call equals memory before it.                          *)
(***************************************************************************)
C3_ErrorLeavesDestination ==
    (IsCall /\ call.status # RESIZE_OK) => (mem = call.before /\ call.writes = {})

C3_Witness ==
    /\ call.op = "resize_nearest" /\ call.status = RESIZE_ERR_OVERLAP
    /\ call.a.src_w = Big(MaxDim) /\ call.a.dst_ptr = Big(SrcBase + 4)
    /\ mem = call.before

(***************************************************************************)
(* C4 as stated: with non-null aligned pointers and non-zero dimensions,   *)
(* a 65535 x 65535 buffer makes the call return Overflow.                  *)
(***************************************************************************)
Is65535Square(w, h) == w = Big(65535) /\ h = Big(65535)

C4_Original ==
    (/\ IsCall /\ PointersOk(call.a) /\ ~HasZeroDim(call.a)
     /\ \/ Is65535Square(call.a.src_w, call.a.src_h)
        \/ Is65535Square(call.a.dst_w, call.a.dst_h))
        => call.status = RESIZE_ERR_OVERFLOW

(***************************************************************************)
(* C4 amended: with non-null aligned pointers and non-zero dimensions the  *)
(* call returns Overflow exactly when width*height*4 of either buffer does *)
(* not fit the 64-bit intermediate; a 65535 x 65535 buffer (whose size     *)
(* fits 64 bits) returns InvalidSize when neither size overflows.          *)
(***************************************************************************)
C4_OverflowIs64Bit ==
    (IsCall /\ PointersOk(call.a) /\ ~HasZeroDim(call.a)) =>
        /\ call.status = RESIZE_ERR_OVERFLOW <=> SizeOverflows(call.a)
        /\ (/\ ~SizeOverflows(call.a)
            /\ \/ Is65535Square(call.a.src_w, call.a.src_h)
               \/ Is65535Square(call.a.dst_w, call.a.dst_h))
               => call.status = RESIZE_ERR_INVALID_SIZE

C4_Witness ==
    /\ call.op = "resize" /\ call.status = RESIZE_ERR_OVERFLOW
    /\ call.a.src_w = Big(65535) /\ call.a.src_h = Big(65535)
    /\ call.a.dst_w = TwoTo31 /\ call.a.dst_h = TwoTo31

(***************************************************************************)
(* C5: a call that passes checks 1 to 5 returns Overlap iff the half-open  *)
(* byte ranges intersect; adjacent buffers are accepted, also at the top   *)
(* of the address space where the end saturates.                           *)
(***************************************************************************)
C5_OverlapIffIntersect ==
    (IsCall /\ PassesChecks1To5(call.a)) =>
        (call.status = RESIZE_ERR_OVERLAP <=> RangesIntersect(call.a))

C5_Witness ==
    /\ call.op = "resize" /\ call.status = RESIZE_OK
    /\ call.a.src_ptr = BigAdd(HighBase, Big(4)) /\ call.a.dst_ptr = HighBase
    /\ BigAdd(call.a.src_ptr, Bytes(call.a.src_w, call.a.src_h)) = TwoTo32
    /\ call.writes # {}

(***************************************************************************)
(* C6: for dimensions in 1..65535 the selector follows the stated policy:  *)
(* bilinear when no axis downscales; else nearest when an axis downscales  *)
(* by more than 8x; else nearest iff a downscaling axis exceeds T, with    *)
(* T = 8 below 1,000,000 source pixels, 4 below 10,000,000, 2 otherwise.   *)
(***************************************************************************)
PolicyThreshold(sw, sh) ==
    IF BigLt(BigMul(Big(sw), Big(sh)), Big(1000000)) THEN 8
    ELSE IF BigLt(BigMul(Big(sw), Big(sh)), Big(10000000)) THEN 4
    ELSE 2

PolicyNearest(sw, sh, dw, dh) ==
    IF sw <= dw /\ sh <= dh THEN FALSE
    ELSE IF sw > 8 * dw \/ sh > 8 * dh THEN TRUE
    ELSE \/ sw > dw /\ sw > PolicyThreshold(sw, sh) * dw
         \/ sh > dh /\ sh > PolicyThreshold(sw, sh) * dh

SelSrcW == ToInt(call.a.src_w)
SelSrcH == ToInt(call.a.src_h)
SelDstW == ToInt(call.a.dst_w)
SelDstH == ToInt(call.a.dst_h)

SmallSource == BigLt(BigMul(call.a.src_w, call.a.src_h), Big(1000000))

C7_Original == (call.op = "select" /\ SmallSource) => ~call.use_nearest

(***************************************************************************)
(* C7 amended: a source of fewer than 1,000,000 pixels gets bilinear for   *)
(* every destination whose axes are downscaled by at most 8x, and nearest  *)
(* exactly when src_w > 8*dst_w or src_h > 8*dst_h.                        *)
(***************************************************************************)
C7_SmallBilinearUpTo8x ==
    (call.op = "select" /\ SmallSource) =>
        (call.use_nearest <=> (SelSrcW > 8 * SelDstW \/ SelSrcH > 8 * SelDstH))

C7_Witness ==
    /\ call.op = "select" /\ SmallSource /\ ~call.use_nearest
    /\ SelSrcW = 1000 /\ SelSrcH = 999 /\ SelDstW = 125 /\ SelDstH = 125

(***************************************************************************)
(* C8 as stated: resize of a 20000 x 20000 source to a 100 x 100           *)
(* destination, with non-null aligned disjoint buffers, returns Ok.        *)
(***************************************************************************)
Is20000To100 ==
    /\ call.a.src_w = Big(20000) /\ call.a.src_h = Big(20000)
    /\ call.a.dst_w = Big(100) /\ call.a.dst_h = Big(100)
    /\ PointersOk(call.a) /\ ~RangesIntersect(call.a)

C8_Original == (call.op = "resize" /\ Is20000To100) => call.status = RESIZE_OK

(***************************************************************************)
(* C8 amended: the selector picks nearest for 20000 x 20000 -> 100 x 100,  *)
(* but the call never gets there: 400,000,000 pixels exceed MAX_PIXELS, so *)
(* resize and resize_nearest both return InvalidSize and leave memory as   *)
(* it was (the two destinations still agree byte for byte).                *)
(***************************************************************************)
C8_TooLargeRejected ==
    (IsCall /\ Is20000To100) =>
        /\ call.status = RESIZE_ERR_INVALID_SIZE
        /\ LAST_ERROR_CODE = RESIZE_ERR_INVALID_SIZE
        /\ mem = call.before
        /\ should_use_nearest_neighbor(call.a.src_w, call.a.src_h, call.a.dst_w, call.a.dst_h)

C8_Witness ==
    /\ call.op = "resize" /\ Is20000To100 /\ call.status = RESIZE_ERR_INVALID_SIZE
    /\ call.a.src_ptr = Big(SrcBase) /\ call.a.dst_ptr = TwoTo31

(***************************************************************************)
(* C9: resizing to the same dimensions copies the source: after a valid    *)
(* call with dst_w = src_w and dst_h = src_h, by resize_nearest or by      *)
(* resize, the destination equals the source byte for byte.                *)
(***************************************************************************)
C9_SameSizeIsIdentity ==
    (/\ IsCall /\ ValidInput(call.a)
     /\ call.a.dst_w = call.a.src_w /\ call.a.dst_h = call.a.src_h) =>
        /\ call.status = RESIZE_OK
        /\ \A i \in 0 .. (SrcBytes - 1) : mem[DstCell + i] = call.before[SrcCell + i]

C9_Witness ==
    /\ call.op = "resize" /\ ~call.use_nearest /\ call.status = RESIZE_OK
    /\ call.a.src_w = Big(3) /\ call.a.src_h = Big(2)
    /\ call.a.dst_w = Big(3) /\ call.a.dst_h = Big(2)
    /\ call.before = RampMem /\ mem # call.before

(***************************************************************************)
(* C10 as stated: after a successful resize_nearest, destination pixel     *)
(* (x, y) holds the source pixel at column                                 *)
(* min(floor((x + 0.5) * src_w / dst_w), src_w - 1) and row                *)
(* min(floor((y + 0.5) * src_h / dst_h), src_h - 1).                       *)
(***************************************************************************)
PixelAt(m, base, w, x, y) == [k \in 1 .. 4 |-> m[base + (y * w + x) * 4 + k - 1]]

ExactCoord(i, sdim, ddim) == Min(((2 * i + 1) * sdim) \div (2 * ddim), sdim - 1)

\* the same sample point in single precision: the quotient src/dst and its
\* product with i + 0.5 are each rounded to f32 before the truncation
SingleCoord(i, sdim, ddim) ==
    Min(F32ToUnsigned(F32Mul(F32Add(F32FromInt(i), F32Half),
                             F32Div(F32FromInt(sdim), F32FromInt(ddim))), sdim),
        sdim - 1)

NearestDone == call.op = "resize_nearest" /\ call.status = RESIZE_OK

C10_Original ==
    NearestDone =>
        \A x \in 0 .. (SelDstW - 1), y \in 0 .. (SelDstH - 1) :
            PixelAt(mem, DstCell, SelDstW, x, y)
              = PixelAt(call.before, SrcCell, SelSrcW,
                        ExactCoord(x, SelSrcW, SelDstW), ExactCoord(y, SelSrcH, SelDstH))

(***************************************************************************)
(* C10 amended: after a successful resize_nearest, destination pixel       *)
(* (x, y) holds the source pixel at column min(trunc((x + 0.5) * scale_x), *)
(* src_w - 1) and row min(trunc((y + 0.5) * scale_y), src_h - 1), where    *)
(* scale = src/dst and the product are computed in single precision; so    *)
(* every output pixel is a copy of a source pixel and a solid source gives *)
(* a solid destination.                                                    *)
(***************************************************************************)
C10_NearestCopiesSample ==
    NearestDone =>
        \A x \in 0 .. (SelDstW - 1), y \in 0 .. (SelDstH - 1) :
            PixelAt(mem, DstCell, SelDstW, x, y)
              = PixelAt(call.before, SrcCell, SelSrcW,
                        SingleCoord(x, SelSrcW, SelDstW), SingleCoord(y, SelSrcH, SelDstH))

C10_Witness ==
    /\ NearestDone /\ call.before = RedMem
    /\ SelSrcW = 4 /\ SelSrcH = 4 /\ SelDstW = 2 /\ SelDstH = 2
    /\ call.a.dst_ptr = Big(DstBase)
    /\ \A x \in 0 .. 1, y \in 0 .. 1 : PixelAt(mem, DstCell, 2, x, y) = Red

(***************************************************************************)
(* C11: bilinear upscaling of a single-row source preserves order: when    *)
(* every channel of the source row is non-decreasing from left to right    *)
(* and dst_w >= src_w (both heights 1), every channel of the output row is *)
(* non-decreasing; 2x1 [(0,0,0,255),(255,255,255,255)] to 4x1 gives four   *)
(* strictly increasing grays from (0,0,0) to (255,255,255), alpha 255.     *)
(***************************************************************************)
IsRowUpscale ==
    /\ call.op = "resize" /\ call.status = RESIZE_OK
    /\ call.a.src_h = Big(1) /\ call.a.dst_h = Big(1)
    /\ SelDstW >= SelSrcW

NonDecreasing(m, base, w) ==
    \A x \in 0 .. (w - 2) : \A k \in 1 .. 4 :
        PixelAt(m, base, w, x, 0)[k] <= PixelAt(m, base, w, x + 1, 0)[k]

IsBlackWhite2To4 ==
    /\ IsRowUpscale /\ SelSrcW = 2 /\ SelDstW = 4
    /\ PixelAt(call.before, SrcCell, 2, 0, 0) = Gray(0)
    /\ PixelAt(call.before, SrcCell, 2, 1, 0) = Gray(255)

C11_RowUpscaleMonotone ==
    /\ (IsRowUpscale /\ NonDecreasing(call.before, SrcCell, SelSrcW))
            => NonDecreasing(mem, DstCell, SelDstW)
    /\ IsBlackWhite2To4 =>
            /\ PixelAt(mem, DstCell, 4, 0, 0) = Gray(0)
            /\ PixelAt(mem, DstCell, 4, 3, 0) = Gray(255)
            /\ \A x \in 0 .. 3 : \E g \in 0 .. 255 : PixelAt(mem, DstCell, 4, x, 0) = Gray(g)
            /\ \A x \in 0 .. 2 :
                   PixelAt(mem, DstCell, 4, x, 0)[1] < PixelAt(mem, DstCell, 4, x + 1, 0)[1]

C11_Witness ==
    /\ IsBlackWhite2To4
    /\ PixelAt(mem, DstCell, 4, 1, 0) = Gray(63)
    /\ PixelAt(mem, DstCell, 4, 2, 0) = Gray(191)

(***************************************************************************)
(* C12: every call of resize or resize_nearest returns exactly one status  *)
(* in 0..6, and when it returns the diagnostic cell holds that status: Ok  *)
(* after a success, also when an earlier call had latched an error, and    *)
(* the specific error after a failure, also when resize delegates to       *)
(* resize_nearest and validation runs twice.                               *)
(***************************************************************************)
C12_StatusLatched ==
    IsCall =>
        /\ call.status \in RESIZE_OK .. RESIZE_ERR_OVERLAP
        /\ LAST_ERROR_CODE = call.status
        /\ history[Len(history)].op = call.op
        /\ history[Len(history)].result = call.status

C12_Witness ==
    /\ Len(history) = 2 /\ history[1].result = RESIZE_ERR_NULL_PTR
    /\ call.op = "resize" /\ call.use_nearest
    /\ call.status = RESIZE_OK /\ LAST_ERROR_CODE = RESIZE_OK

(***************************************************************************)
(* C13 as stated: last_error returns the message of the status returned by *)
(* the most recent resize or resize_nearest call, "OK" if there was none;  *)
(* allocate and deallocate calls in between, failed or not, change nothing.*)
(***************************************************************************)
RECURSIVE LastResizeStatus(_, _)
LastResizeStatus(h, n) ==
    IF n = 0 THEN RESIZE_OK
    ELSE IF h[n].op \in {"resize", "resize_nearest"} THEN h[n].result
    ELSE LastResizeStatus(h, n - 1)

MessageOf(code) ==
    <<"OK", "NULL pointer", "Invalid size or dimensions", "Overflow in size calculation",
      "Memory error", "Pointer alignment error", "Memory regions overlap">>[code + 1]

C13_Original ==
    call.op = "last_error" => call.msg = MessageOf(LastResizeStatus(history, Len(history)))

(***************************************************************************)
(* C13 amended: last_error returns the message of the code latched last:   *)
(* the status of the most recent resize or resize_nearest call, replaced   *)
(* by InvalidSize when a later allocate of 0 bytes, and by MemoryError     *)
(* when a later allocate of more than 0 bytes, returned null; "OK" if      *)
(* nothing was latched.  Successful allocate, deallocate and last_error    *)
(* leave the report as it was.                                             *)
(***************************************************************************)
RECURSIVE LastLatched(_, _)
LastLatched(h, n) ==
    IF n = 0 THEN RESIZE_OK
    ELSE IF h[n].op \in {"resize", "resize_nearest"} THEN h[n].result
    ELSE IF h[n].op = "alloc" /\ h[n].ret = Big(0)
         THEN (IF h[n].size = Big(0) THEN RESIZE_ERR_INVALID_SIZE ELSE RESIZE_ERR_MEMORY)
    ELSE LastLatched(h, n - 1)

C13_LastErrorReportsLatched ==
    /\ call.op = "last_error" => call.msg = MessageOf(LastLatched(history, Len(history)))
    /\ LAST_ERROR_CODE = LastLatched(history, Len(history))

C13_Witness ==
    /\ Len(history) = 2 /\ call.op = "last_error"
    /\ history[1].op = "alloc" /\ history[1].size = Big(4) /\ history[1].ret = Big(0)
    /\ call.msg = "Memory error"

(***************************************************************************)
(* C14: when the selector answers nearest for the arguments of a resize    *)
(* call, the call does what resize_nearest does from the same state: same  *)
(* status, same memory, same diagnostic code, same nearest LUT; the three  *)
(* bilinear LUTs are as they were before the call and the only bytes       *)
(* written are the ones resize_nearest writes.                             *)
(***************************************************************************)
SelectsNearest ==
    should_use_nearest_neighbor(call.a.src_w, call.a.src_h, call.a.dst_w, call.a.dst_h)

SameAs(r) ==
    /\ call.status = r.status
    /\ mem = r.mem
    /\ LAST_ERROR_CODE = r.err
    /\ X_INDICES_NEAREST = r.luts.x
    /\ call.writes = r.writes /\ call.copied = r.copied /\ call.reads = r.reads

BilinearLutsUntouched ==
    /\ X0_INDICES_BILINEAR = call.luts.x0
    /\ X1_INDICES_BILINEAR = call.luts.x1
    /\ FX_VALUES_BILINEAR = call.luts.fx

C14_DelegatesToNearest ==
    (call.op = "resize" /\ SelectsNearest) =>
        /\ SameAs(resize_rgba_nearest(call.a, call.before, call.luts))
        /\ BilinearLutsUntouched

C14_Witness ==
    /\ call.op = "resize" /\ SelectsNearest /\ call.status = RESIZE_OK
    /\ Len(history) = 2 /\ history[1].op = "resize" /\ history[1].result = RESIZE_OK
    /\ Len(X0_INDICES_BILINEAR) = 2 /\ call.a.dst_w = Big(1)
    /\ Len(X_INDICES_NEAREST) = 1 /\ call.copied = 1

(***************************************************************************)
(* C15: a call of resize or resize_nearest whose arguments pass validation *)
(* returns Ok and writes each of the dst_w*dst_h destination pixels once;  *)
(* no defensive branch is taken: no Overflow, InvalidSize or MemoryError   *)
(* abort in the loops, no skipped pixel write, no clamped or transparent   *)
(* pixel fetch.                                                            *)
(***************************************************************************)
C15_ValidatedCallCompletes ==
    (IsCall /\ ValidInput(call.a)) =>
        /\ call.status = RESIZE_OK /\ LAST_ERROR_CODE = RESIZE_OK
        /\ call.copied = SelDstW * SelDstH
        /\ call.writes = { DstCell + i : i \in 0 .. (DstBytes - 1) }
        /\ call.fallbacks = 0

C15_Witness ==
    /\ call.op = "resize" /\ ValidInput(call.a) /\ ~call.use_nearest
    /\ call.a.src_w = Big(RowSrcW) /\ call.a.dst_w = Big(RowDstW)
    /\ call.copied = RowDstW /\ call.fallbacks = 0 /\ call.status = RESIZE_OK

(***************************************************************************)
(* C16: the result of a call does not depend on earlier calls: whatever    *)
(* calls came before (any destination widths, accepted or rejected), a     *)
(* call returns the status and leaves the memory that the same call on the *)
(* same memory returns and leaves when no call came before, and each LUT   *)
(* it used holds exactly dst_w entries.                                    *)
(***************************************************************************)
EmptyLuts == [x |-> << >>, x0 |-> << >>, x1 |-> << >>, fx |-> << >>]

AsWithoutHistory(r) ==
    /\ call.status = r.status
    /\ mem = r.mem
    /\ call.status = RESIZE_OK =>
           IF call.use_nearest THEN X_INDICES_NEAREST = r.luts.x /\ Len(r.luts.x) = SelDstW
           ELSE /\ X0_INDICES_BILINEAR = r.luts.x0 /\ Len(r.luts.x0) = SelDstW
                /\ X1_INDICES_BILINEAR = r.luts.x1 /\ Len(r.luts.x1) = SelDstW
                /\ FX_VALUES_BILINEAR = r.luts.fx /\ Len(r.luts.fx) = SelDstW

C16_HistoryIndependent ==
    /\ call.op = "resize" => AsWithoutHistory(resize_rgba(call.a, call.before, EmptyLuts))
    /\ call.op = "resize_nearest" =>
           AsWithoutHistory(resize_rgba_nearest(call.a, call.before, EmptyLuts))

C16_Witness ==
    /\ Len(history) = 2 /\ call.op = "resize" /\ ~call.use_nearest
    /\ history[1].op = "resize" /\ history[1].result = RESIZE_OK
    /\ Len(call.luts.x0) = 2 /\ call.a.src_w = Big(2) /\ call.a.dst_w = Big(1)
    /\ call.status = RESIZE_OK /\ Len(X0_INDICES_BILINEAR) = 1

====
